---------------------------- MODULE Spec2Model ----------------------------
(***************************************************************************)
(* Model of src/ettj_getter/contador_dias.py: the B3 business calendar,    *)
(* the five expiry resolvers, the ticker decoding of the batch function    *)
(* add_dia_vencimento_df and the two day counters calc_du / calc_dc.       *)
(*                                                                         *)
(* A date is the number of days since 1970-01-01 (the ordinal a pandas     *)
(* Timestamp at midnight stands for).  A string is a sequence of           *)
(* one-character strings.  Every call is one action: it is enabled in the  *)
(* idle state, and leaves the arguments and the outcome in the state.      *)
(***************************************************************************)
EXTENDS Integers, Sequences, FiniteSets, TLC

VARIABLES DUS_DF,   \* the business-day index loaded at import (sorted sequence of dates)
          pc,       \* "idle" before the call, "done" after it
          fn,       \* name of the function that was called
          args,     \* its arguments
          out,      \* its outcome: a value or the exception it raised
          df        \* the caller's table, which add_dia_vencimento_df mutates in place

vars == <<DUS_DF, pc, fn, args, out, df>>

---------------------------------------------------------------------------
(* Bounds of the model *)

\* number of whole months the loaded horizon spans (80 years in the source)
HorizonMonths == 2
\* longest run of consecutive weekdays on which the exchange is closed
MaxClosure == 15
\* the day counters are called on dates up to this many days after start_date
MaxDateOffset == 10
\* largest number of rows of a table handed to add_dia_vencimento_df
MaxRows == 2
\* longest closure among the calendars the batch function is run on
MaxBatchClosure == 1

---------------------------------------------------------------------------
(* Gregorian calendar arithmetic: what datetime / DatetimeIndex compute *)

DaysFromCivil(y, m, d) ==
    LET yy  == IF m <= 2 THEN y - 1 ELSE y
        era == yy \div 400
        yoe == yy - era * 400
        mp  == IF m > 2 THEN m - 3 ELSE m + 9
        doy == (153 * mp + 2) \div 5 + d - 1
        doe == yoe * 365 + yoe \div 4 - yoe \div 100 + doy
    IN  era * 146097 + doe - 719468

CivilFromDays(z) ==
    LET zz  == z + 719468
        era == zz \div 146097
        doe == zz - era * 146097
        yoe == (doe - doe \div 1460 + doe \div 36524 - doe \div 146096) \div 365
        doy == doe - (365 * yoe + yoe \div 4 - yoe \div 100)
        mp  == (5 * doy + 2) \div 153
        d   == doy - (153 * mp + 2) \div 5 + 1
        m   == IF mp < 10 THEN mp + 3 ELSE mp - 9
        y   == yoe + era * 400 + (IF m <= 2 THEN 1 ELSE 0)
    IN  [year |-> y, month |-> m, day |-> d]

\* datetime.strptime("01/01/1990", "%d/%m/%Y"), scaled to the model's horizon
start_date == DaysFromCivil(2024, 1, 1)
\* datetime.strptime("01/01/2070", "%d/%m/%Y"), scaled: the first day of a later month
end_date == DaysFromCivil(2024, 1 + HorizonMonths, 1)

\* pd.date_range(start, end, freq="D"): every day, both ends included
DCS_DF == [i \in 1..(end_date - start_date + 1) |-> start_date + i - 1]

\* the fields of every date the model handles (the horizon and a margin around it)
Civil == [d \in (start_date - 40)..(end_date + 40) |-> CivilFromDays(d)]

YearOf(d)  == Civil[d].year
MonthOf(d) == Civil[d].month
DayOf(d)   == Civil[d].day
\* DatetimeIndex.weekday: Monday is 0, Sunday is 6 (1970-01-01 was a Thursday)
WeekdayOf(d) == (d + 3) % 7

Range(s) == {s[i] : i \in DOMAIN s}

---------------------------------------------------------------------------
(* The calendar provider: mcal.get_calendar("BMF").schedule(start, end) *)

Weekdays == SelectSeq(DCS_DF, LAMBDA d : WeekdayOf(d) < 5)

\* the schedule when the exchange is closed on the weekdays number a..b of the horizon
\* (a > b: no holiday at all)
Schedule(a, b) ==
    LET closed == {Weekdays[i] : i \in a..b}
    IN  SelectSeq(Weekdays, LAMBDA d : d \notin closed)

ClosuresUpTo(n) ==
    {<<1, 0>>} \cup
    {<<a, b>> \in (1..Len(Weekdays)) \X (1..Len(Weekdays)) :
        a <= b /\ b - a + 1 <= n}

Closures == ClosuresUpTo(MaxClosure)

---------------------------------------------------------------------------
(* Python values *)

\* A table is a record of columns; cols names the columns it has, and a column it
\* lacks is the empty sequence.
Table(cols, vencimento, mes_vcto, ano_vcto, vencimento_dt) ==
    [cols |-> cols, vencimento |-> vencimento, mes_vcto |-> mes_vcto,
     ano_vcto |-> ano_vcto, vencimento_dt |-> vencimento_dt]

NoTable == Table({}, <<>>, <<>>, <<>>, <<>>)

\* the outcome of a call: the number or date returned (v), the table returned (table),
\* or the exception raised (err)
NoErr == ""
Ok(v)      == [err |-> NoErr, v |-> v, table |-> NoTable]
OkTable(t) == [err |-> NoErr, v |-> 0, table |-> t]
Raise(e)   == [err |-> e, v |-> 0, table |-> NoTable]

\* a numeric cell of a DataFrame: an int, a float, or NaN
PyIntV(n)   == [t |-> "int", v |-> n]
PyFloatV(n) == [t |-> "float", v |-> n]
NaN         == [t |-> "nan", v |-> 0]

DigitChars == <<"0", "1", "2", "3", "4", "5", "6", "7", "8", "9">>
IsDigit(c) == c \in Range(DigitChars)
DigitVal(c) == (CHOOSE i \in 1..10 : DigitChars[i] = c) - 1

RECURSIVE StrToNat(_)
StrToNat(s) ==
    IF s = <<>> THEN 0
    ELSE StrToNat(SubSeq(s, 1, Len(s) - 1)) * 10 + DigitVal(s[Len(s)])

\* int(x) of a string: ValueError unless it is a non-empty run of digits
IntOfStr(s) ==
    IF s /= <<>> /\ \A i \in DOMAIN s : IsDigit(s[i])
    THEN Ok(StrToNat(s)) ELSE Raise("ValueError")

\* int(x) of a numeric cell: ValueError on NaN, the integer part otherwise
IntOfNum(x) ==
    IF x.t = "nan" THEN Raise("ValueError") ELSE Ok(x.v)

---------------------------------------------------------------------------
(* Ticker decoding table *)

\* the table with the letters of June and July exchanged
MONTH_CODES_swapped ==
    [c \in {"F", "G", "H", "J", "K", "M", "N", "Q", "U", "V", "X", "Z"} |->
        CASE c = "F" -> 1  [] c = "G" -> 2  [] c = "H" -> 3  [] c = "J" -> 4
          [] c = "K" -> 5  [] c = "M" -> 7  [] c = "N" -> 6  [] c = "Q" -> 8
          [] c = "U" -> 9  [] c = "V" -> 10 [] c = "X" -> 11 [] c = "Z" -> 12]

MONTH_CODES ==
    [c \in {"F", "G", "H", "J", "K", "M", "N", "Q", "U", "V", "X", "Z"} |->
        CASE c = "F" -> 1  [] c = "G" -> 2  [] c = "H" -> 3  [] c = "J" -> 4
          [] c = "K" -> 5  [] c = "M" -> 6  [] c = "N" -> 7  [] c = "Q" -> 8
          [] c = "U" -> 9  [] c = "V" -> 10 [] c = "X" -> 11 [] c = "Z" -> 12]

---------------------------------------------------------------------------
(* Expiry resolvers.  month is a numeric cell, year a string. *)

\* DUS_DF[(index.month == month) & (index.year == year)]
DusMonth(m, y) == SelectSeq(DUS_DF, LAMBDA d : MonthOf(d) = m /\ YearOf(d) = y)
\* DCS_DF[(index.month == month) & (index.year == year)]
DcsMonth(m, y) == SelectSeq(DCS_DF, LAMBDA d : MonthOf(d) = m /\ YearOf(d) = y)

get_first_du_month(month, year) ==
    LET m == IntOfNum(month)
        y == IntOfStr(year)
    IN  IF m.err /= NoErr THEN Raise(m.err)
        ELSE IF y.err /= NoErr THEN Raise(y.err)
        ELSE LET dus_month == DusMonth(m.v, y.v)
             IN  IF dus_month = <<>> THEN Raise("IndexError")
                 ELSE Ok(dus_month[1])

get_last_du_month(month, year) ==
    LET m == IntOfNum(month)
        y == IntOfStr(year)
    IN  IF m.err /= NoErr THEN Raise(m.err)
        ELSE IF y.err /= NoErr THEN Raise(y.err)
        ELSE LET dus_month == DusMonth(m.v, y.v)
             IN  IF dus_month = <<>> THEN Raise("IndexError")
                 ELSE Ok(dus_month[Len(dus_month)])

\* the third Friday returned as it is, holiday or not
get_third_friday_du_month_unadjusted(month, year) ==
    LET m == IntOfNum(month)
        y == IntOfStr(year)
    IN  IF m.err /= NoErr THEN Raise(m.err)
        ELSE IF y.err /= NoErr THEN Raise(y.err)
        ELSE LET dcs_month == SelectSeq(DcsMonth(m.v, y.v), LAMBDA d : WeekdayOf(d) = 4)
             IN  IF Len(dcs_month) < 3 THEN Raise("IndexError")
                 ELSE Ok(dcs_month[3])

\* the holiday adjustment looking forward instead of backward
get_third_friday_du_month_forward(month, year) ==
    LET m == IntOfNum(month)
        y == IntOfStr(year)
    IN  IF m.err /= NoErr THEN Raise(m.err)
        ELSE IF y.err /= NoErr THEN Raise(y.err)
        ELSE LET dcs_month == SelectSeq(DcsMonth(m.v, y.v), LAMBDA d : WeekdayOf(d) = 4)
             IN  IF Len(dcs_month) < 3 THEN Raise("IndexError")
                 ELSE LET third_friday == dcs_month[3]
                          dus_depois == SelectSeq(DUS_DF, LAMBDA d : d > third_friday)
                      IN  IF third_friday \notin Range(DUS_DF)
                          THEN IF dus_depois = <<>> THEN Raise("IndexError")
                               ELSE Ok(dus_depois[1])
                          ELSE Ok(third_friday)

get_third_friday_du_month(month, year) ==
    LET m == IntOfNum(month)
        y == IntOfStr(year)
    IN  IF m.err /= NoErr THEN Raise(m.err)
        ELSE IF y.err /= NoErr THEN Raise(y.err)
        ELSE LET dcs_month == SelectSeq(DcsMonth(m.v, y.v), LAMBDA d : WeekdayOf(d) = 4)
             IN  IF Len(dcs_month) < 3 THEN Raise("IndexError")
                 ELSE LET third_friday == dcs_month[3]
                          dus_ate == SelectSeq(DUS_DF, LAMBDA d : d < third_friday)
                      IN  IF third_friday \notin Range(DUS_DF)
                          THEN IF dus_ate = <<>> THEN Raise("IndexError")
                               ELSE Ok(dus_ate[Len(dus_ate)])
                          ELSE Ok(third_friday)

\* abs(15 - index.day)
DistFifteen(d) == IF 15 - DayOf(d) < 0 THEN DayOf(d) - 15 ELSE 15 - DayOf(d)

\* one step of the insertion sort numpy runs on a short array: x goes after
\* every element whose key is not greater than its own
InsertByDist(s, x) ==
    LET k == Cardinality({i \in DOMAIN s : DistFifteen(s[i]) <= DistFifteen(x)})
    IN  SubSeq(s, 1, k) \o <<x>> \o SubSeq(s, k + 1, Len(s))

\* wednesdays.sort_values(by="dist_fifteen")
RECURSIVE SortByDist(_)
SortByDist(s) ==
    IF s = <<>> THEN <<>>
    ELSE InsertByDist(SortByDist(SubSeq(s, 1, Len(s) - 1)), s[Len(s)])

\* the Wednesdays left in date order: the first one of the month is taken
get_wednesday_closest_fifteen_unsorted(month, year) ==
    LET m == IntOfNum(month)
        y == IntOfStr(year)
    IN  IF m.err /= NoErr THEN Raise(m.err)
        ELSE IF y.err /= NoErr THEN Raise(y.err)
        ELSE LET wednesdays == SelectSeq(DcsMonth(m.v, y.v), LAMBDA d : WeekdayOf(d) = 2)
             IN  IF wednesdays = <<>> THEN Raise("IndexError")
                 ELSE LET closest_wednesday == wednesdays[1]
                          dus_depois == SelectSeq(DUS_DF, LAMBDA d : d > closest_wednesday)
                      IN  IF closest_wednesday \notin Range(DUS_DF)
                          THEN IF dus_depois = <<>> THEN Raise("IndexError")
                               ELSE Ok(dus_depois[1])
                          ELSE Ok(closest_wednesday)

get_wednesday_closest_fifteen(month, year) ==
    LET m == IntOfNum(month)
        y == IntOfStr(year)
    IN  IF m.err /= NoErr THEN Raise(m.err)
        ELSE IF y.err /= NoErr THEN Raise(y.err)
        ELSE LET wednesdays == SelectSeq(DcsMonth(m.v, y.v), LAMBDA d : WeekdayOf(d) = 2)
                 sorted == SortByDist(wednesdays)
             IN  IF sorted = <<>> THEN Raise("IndexError")
                 ELSE LET closest_wednesday == sorted[1]
                          dus_depois == SelectSeq(DUS_DF, LAMBDA d : d > closest_wednesday)
                      IN  IF closest_wednesday \notin Range(DUS_DF)
                          THEN IF dus_depois = <<>> THEN Raise("IndexError")
                               ELSE Ok(dus_depois[1])
                          ELSE Ok(closest_wednesday)

\* datetime.strptime(f"15/{month}/{year}", "%d/%m/%Y"), month after the "0" padding of
\* lines 129-130: it parses only when the month prints as an integer 1..12 (a float
\* prints as "6.0") and the year has exactly four digits
Dia15(month, year) ==
    IF month.t = "int" /\ month.v \in 1..12 /\ Len(year) = 4
    THEN Ok(DaysFromCivil(StrToNat(year), month.v, 15))
    ELSE Raise("ValueError")

\* the business days not restricted to the month before the filter on the 15th
get_fifteen_any_month(month, year) ==
    LET m == IntOfNum(month)
        y == IntOfStr(year)
    IN  IF m.err /= NoErr THEN Raise(m.err)
        ELSE IF y.err /= NoErr THEN Raise(y.err)
        ELSE LET dia_15 == Dia15(month, year)
                 dus_month == SelectSeq(DUS_DF, LAMBDA d : d >= dia_15.v)
             IN  IF dia_15.err /= NoErr THEN Raise(dia_15.err)
                 ELSE IF dus_month = <<>> THEN Raise("IndexError")
                 ELSE Ok(dus_month[1])

get_fifteen(month, year) ==
    LET m == IntOfNum(month)
        y == IntOfStr(year)
    IN  IF m.err /= NoErr THEN Raise(m.err)
        ELSE IF y.err /= NoErr THEN Raise(y.err)
        ELSE LET dia_15 == Dia15(month, year)
                 dus_month == SelectSeq(DusMonth(m.v, y.v), LAMBDA d : d >= dia_15.v)
             IN  IF dia_15.err /= NoErr THEN Raise(dia_15.err)
                 ELSE IF dus_month = <<>> THEN Raise("IndexError")
                 ELSE Ok(dus_month[1])

---------------------------------------------------------------------------
(* Day counters *)

\* the interval closed at the first day and open at the last
calc_du_counts_first(dia_1, dia_n) ==
    Len(SelectSeq(DUS_DF, LAMBDA d : d >= dia_1 /\ d < dia_n))

calc_du(dia_1, dia_n) ==
    Len(SelectSeq(DUS_DF, LAMBDA d : d > dia_1 /\ d <= dia_n))

calc_dc(dia_1, dia_n) ==
    Len(SelectSeq(DCS_DF, LAMBDA d : d > dia_1 /\ d <= dia_n))

---------------------------------------------------------------------------
(* The batch function *)

\* a table as the caller builds it: the tickers alone
InputTable(tickers) == Table({"vencimento"}, tickers, <<>>, <<>>, <<>>)

\* df["vencimento"].str[0] then .map(MONTH_CODES): the month number, NaN when the
\* string is empty or its first character is no key of the table
MapMonth(s) ==
    IF s /= <<>> /\ s[1] \in DOMAIN MONTH_CODES THEN PyIntV(MONTH_CODES[s[1]]) ELSE NaN

\* the mapped column: one NaN makes it a float64 column, so every month in it is a float
MesVcto(tickers) ==
    LET mapped == [i \in DOMAIN tickers |-> MapMonth(tickers[i])]
    IN  IF \E i \in DOMAIN mapped : mapped[i] = NaN
        THEN [i \in DOMAIN mapped |->
                 IF mapped[i] = NaN THEN NaN ELSE PyFloatV(mapped[i].v)]
        ELSE mapped

\* "20" + df["vencimento"].str[1:]
AnoVcto(tickers) ==
    [i \in DOMAIN tickers |-> <<"2", "0">> \o SubSeq(tickers[i], 2, Len(tickers[i]))]

Metodos == {"prim_du", "ult_du", "terceira_sexta", "quarta_prox_quinze", "dia_15"}

\* the branch of the if/elif chain that metodo_venc selects
Resolve(metodo_venc, month, year) ==
    CASE metodo_venc = "prim_du"            -> get_first_du_month(month, year)
      [] metodo_venc = "ult_du"             -> get_last_du_month(month, year)
      [] metodo_venc = "terceira_sexta"     -> get_third_friday_du_month(month, year)
      [] metodo_venc = "quarta_prox_quinze" -> get_wednesday_closest_fifteen(month, year)
      [] metodo_venc = "dia_15"             -> get_fifteen(month, year)

\* df.drop(["mes_vcto", "ano_vcto"], axis=1): a new table, the caller's is left as it is
DropHelpers(t) ==
    Table({c \in t.cols : c \notin {"mes_vcto", "ano_vcto"}},
          t.vencimento, <<>>, <<>>, t.vencimento_dt)

\* lines 154-156: the caller's table with the two helper columns added
Decoded(tickers) ==
    Table({"vencimento", "mes_vcto", "ano_vcto"},
          tickers, MesVcto(tickers), AnoVcto(tickers), <<>>)

\* df.apply(lambda row: ..., axis=1): the outcome of the resolver on every row
ApplyRows(decoded, metodo_venc) ==
    [i \in DOMAIN decoded.vencimento |->
        Resolve(metodo_venc, decoded.mes_vcto[i], decoded.ano_vcto[i])]

\* the exception apply propagates: the one of the first row that raises
FirstError(rows) ==
    LET failing == {i \in DOMAIN rows : rows[i].err /= NoErr}
    IN  rows[CHOOSE i \in failing : \A j \in failing : i <= j].err

\* df["vencimento_dt"] = ...: the caller's table with the expiry column added
WithExpiry(decoded, rows) ==
    Table({"vencimento", "mes_vcto", "ano_vcto", "vencimento_dt"},
          decoded.vencimento, decoded.mes_vcto, decoded.ano_vcto,
          [i \in DOMAIN rows |-> rows[i].v])

\* line 175: the caller's table as the call left it, and the table returned
ReturnDropped(t) == [df |-> t, out |-> OkTable(DropHelpers(t))]

\* a branch of lines 158-172 ran: apply raised on some row, or the column was assigned
Assigned(decoded, rows) ==
    IF \E i \in DOMAIN rows : rows[i].err /= NoErr
    THEN [df |-> decoded, out |-> Raise(FirstError(rows))]
    ELSE ReturnDropped(WithExpiry(decoded, rows))

\* the call add_dia_vencimento_df(df, metodo_venc) on a table of tickers:
\* [df |-> the caller's table after the call, out |-> the returned table or the exception]
add_dia_vencimento_df(tickers, metodo_venc) ==
    IF metodo_venc \notin Metodos
    THEN ReturnDropped(Decoded(tickers))
    ELSE Assigned(Decoded(tickers), ApplyRows(Decoded(tickers), metodo_venc))

---------------------------------------------------------------------------
(* Inputs *)

Str3(a, b, c) == <<a, b, c>>

\* contract codes: four well-formed ones inside or after the horizon, one with an
\* unknown month letter, one whose year is not numeric
Tickers == {Str3("F", "2", "4"), Str3("G", "2", "4"), Str3("M", "2", "4"),
            Str3("N", "2", "4"), Str3("Z", "9", "9"), Str3("A", "2", "4"),
            Str3("F", "2", "X")}

\* the tables of exactly n contract codes
RECURSIVE TablesOfLen(_)
TablesOfLen(n) ==
    IF n = 0 THEN {<<>>}
    ELSE {Append(t, x) : t \in TablesOfLen(n - 1), x \in Tickers}

TickerTables == UNION {TablesOfLen(n) : n \in 1..MaxRows}

MetodoInputs == Metodos \cup {"outro"}

\* months handed to a resolver: the months of the horizon, the partial month that
\* ends it, December, a float month and NaN
MonthInputs ==
    {PyIntV(m) : m \in (1..(HorizonMonths + 1)) \cup {12}} \cup {PyFloatV(1), NaN}

YearInputs == {<<"2", "0", "2", "3">>, <<"2", "0", "2", "4">>, <<"2", "0", "9", "9">>}

DateInputs == start_date..(start_date + MaxDateOffset)

---------------------------------------------------------------------------
(* The state machine *)

\* the module is imported: the calendar is loaded, nothing has been called
Loaded(closures) ==
    /\ \E c \in closures : DUS_DF = Schedule(c[1], c[2])
    /\ pc = "idle"
    /\ fn = "none"
    /\ args = <<>>
    /\ out = Ok(0)
    /\ df = NoTable

Init == Loaded(Closures)

\* the calendars the batch function is run on: at most a short closure
InitBatch == Loaded(ClosuresUpTo(MaxBatchClosure))

\* a function called from the idle state returns: the call and its outcome are recorded
Returned(name, a, result) ==
    /\ pc' = "done"
    /\ fn' = name
    /\ args' = a
    /\ out' = result
    /\ UNCHANGED <<DUS_DF, df>>

GetFirstDuMonth ==
    /\ pc = "idle"
    /\ \E m \in MonthInputs, y \in YearInputs :
          Returned("get_first_du_month", <<m, y>>, get_first_du_month(m, y))

GetLastDuMonth ==
    /\ pc = "idle"
    /\ \E m \in MonthInputs, y \in YearInputs :
          Returned("get_last_du_month", <<m, y>>, get_last_du_month(m, y))

GetThirdFridayDuMonth ==
    /\ pc = "idle"
    /\ \E m \in MonthInputs, y \in YearInputs :
          Returned("get_third_friday_du_month", <<m, y>>,
                   get_third_friday_du_month(m, y))

GetWednesdayClosestFifteen ==
    /\ pc = "idle"
    /\ \E m \in MonthInputs, y \in YearInputs :
          Returned("get_wednesday_closest_fifteen", <<m, y>>,
                   get_wednesday_closest_fifteen(m, y))

GetFifteen ==
    /\ pc = "idle"
    /\ \E m \in MonthInputs, y \in YearInputs :
          Returned("get_fifteen", <<m, y>>, get_fifteen(m, y))

CalcDu ==
    /\ pc = "idle"
    /\ \E dia_1 \in DateInputs, dia_n \in DateInputs :
          Returned("calc_du", <<dia_1, dia_n>>, Ok(calc_du(dia_1, dia_n)))

CalcDc ==
    /\ pc = "idle"
    /\ \E dia_1 \in DateInputs, dia_n \in DateInputs :
          Returned("calc_dc", <<dia_1, dia_n>>, Ok(calc_dc(dia_1, dia_n)))

\* the batch function called from the idle state: it leaves the caller's table with the
\* columns it added and returns a table or raises
AddDiaVencimentoDf ==
    /\ pc = "idle"
    /\ \E tickers \in TickerTables, metodo_venc \in MetodoInputs :
          \E r \in {add_dia_vencimento_df(tickers, metodo_venc)} :
              /\ pc' = "done"
              /\ fn' = "add_dia_vencimento_df"
              /\ args' = <<tickers, metodo_venc>>
              /\ out' = r.out
              /\ df' = r.df
              /\ UNCHANGED DUS_DF

NextResolve ==
    \/ GetFirstDuMonth
    \/ GetLastDuMonth
    \/ GetThirdFridayDuMonth
    \/ GetWednesdayClosestFifteen
    \/ GetFifteen

NextCount == CalcDu \/ CalcDc

NextBatch == AddDiaVencimentoDf

\* the expiry resolvers called directly
SpecResolve == Init /\ [][NextResolve]_vars
\* the day counters
SpecCount == Init /\ [][NextCount]_vars
\* the batch function
SpecBatch == InitBatch /\ [][NextBatch]_vars

Next == NextResolve \/ NextCount \/ NextBatch

Spec == Init /\ [][Next]_vars

---------------------------------------------------------------------------
(* Properties *)

BusinessDays == Range(DUS_DF)
AllDays == Range(DCS_DF)

Called(name) == pc = "done" /\ fn = name

\* the month and year a resolver was called with, as numbers
ArgMonth == args[1].v
ArgYear == StrToNat(args[2])

InMonth(d, m, y) == MonthOf(d) = m /\ YearOf(d) = y

Jan02 == DaysFromCivil(2024, 1, 2)
Jan10 == DaysFromCivil(2024, 1, 10)

N24 == <<"N", "2", "4">>
M24 == <<"M", "2", "4">>

\* C2 as stated: after the decoding step of add_dia_vencimento_df, a row whose contract
\* code is "N24" holds month 6 and a year that reads 2024.
C2_N24IsJune ==
    Called("add_dia_vencimento_df") =>
        \A i \in DOMAIN df.vencimento :
            df.vencimento[i] = N24 =>
                /\ df.mes_vcto[i].v = 6
                /\ IntOfStr(df.ano_vcto[i]) = Ok(2024)

\* C2 amended: a row whose contract code is "N24" holds month 7 and a year that reads
\* 2024; the code whose row holds month 6 and year 2024 is "M24".
C2_N24IsJuly ==
    Called("add_dia_vencimento_df") =>
        \A i \in DOMAIN df.vencimento :
            /\ df.vencimento[i] = N24 =>
                  /\ df.mes_vcto[i].t /= "nan" /\ df.mes_vcto[i].v = 7
                  /\ IntOfStr(df.ano_vcto[i]) = Ok(2024)
            /\ ( /\ df.mes_vcto[i].t /= "nan" /\ df.mes_vcto[i].v = 6
                 /\ IntOfStr(df.ano_vcto[i]) = Ok(2024) )
               <=> df.vencimento[i] = M24

C2_Witness ==
    /\ Called("add_dia_vencimento_df")
    /\ \E i \in DOMAIN df.vencimento :
          /\ df.vencimento[i] = N24
          /\ df.mes_vcto[i] = PyIntV(7)
          /\ df.ano_vcto[i] = <<"2", "0", "2", "4">>

\* the outcome of resolving one contract code on its own
RowAlone(ticker, metodo_venc) ==
    Resolve(metodo_venc, MapMonth(ticker), <<"2", "0">> \o SubSeq(ticker, 2, Len(ticker)))

\* C3: under a recognized convention add_dia_vencimento_df returns a table in which
\* every row that resolves on its own has its expiry date, whatever the other rows are.
C3_FailingRowIsIsolated ==
    (Called("add_dia_vencimento_df") /\ args[2] \in Metodos) =>
        \A i \in DOMAIN args[1] :
            RowAlone(args[1][i], args[2]).err = NoErr =>
                /\ out.err = NoErr
                /\ "vencimento_dt" \in out.table.cols
                /\ out.table.vencimento_dt[i] = RowAlone(args[1][i], args[2]).v

\* C4: called with a convention selector outside the five recognized ones,
\* add_dia_vencimento_df ends in an error and returns no table.
C4_UnknownConventionAborts ==
    (Called("add_dia_vencimento_df") /\ args[2] \notin Metodos) => out.err /= NoErr

\* C5: a date returned by get_third_friday_du_month or get_wednesday_closest_fifteen
\* is a business day.
C5_ResultIsBusinessDay ==
    ( /\ pc = "done"
      /\ fn \in {"get_third_friday_du_month", "get_wednesday_closest_fifteen"}
      /\ out.err = NoErr )
    => out.v \in BusinessDays

C5_Witness ==
    /\ Called("get_third_friday_du_month")
    /\ out.err = NoErr
    /\ WeekdayOf(out.v) /= 4
    /\ out.v \in BusinessDays

\* the Fridays of the month among the calendar days, and the third of them
FridaysOf(m, y) == {d \in AllDays : InMonth(d, m, y) /\ WeekdayOf(d) = 4}
ThirdFridays(m, y) ==
    {f \in FridaysOf(m, y) : Cardinality({e \in FridaysOf(m, y) : e <= f}) = 3}

\* C6: get_third_friday_du_month returns the third Friday of the month when it is a
\* business day, otherwise the latest business day strictly before it; it fails when
\* the month has no third Friday or no business day precedes a closed third Friday.
C6_ThirdFridayLooksBackward ==
    (Called("get_third_friday_du_month") /\ args[1].t /= "nan") =>
        /\ ThirdFridays(ArgMonth, ArgYear) = {} => out.err /= NoErr
        /\ \A f \in ThirdFridays(ArgMonth, ArgYear) :
              LET before == {d \in BusinessDays : d < f}
              IN  IF f \in BusinessDays THEN out = Ok(f)
                  ELSE IF before = {} THEN out.err /= NoErr
                  ELSE /\ out.err = NoErr
                       /\ out.v \in before
                       /\ \A d \in before : d <= out.v

C6_Witness ==
    /\ Called("get_third_friday_du_month")
    /\ out.err = NoErr
    /\ ThirdFridays(ArgMonth, ArgYear) /= {}
    /\ MonthOf(out.v) /= ArgMonth

\* the Wednesdays of the month, and the one nearest the 15th (the earliest on a tie)
WednesdaysOf(m, y) == {d \in AllDays : InMonth(d, m, y) /\ WeekdayOf(d) = 2}
Dist15(d) == IF DayOf(d) >= 15 THEN DayOf(d) - 15 ELSE 15 - DayOf(d)
NearestWednesdays(m, y) ==
    {w \in WednesdaysOf(m, y) :
        \A x \in WednesdaysOf(m, y) :
            Dist15(w) < Dist15(x) \/ (Dist15(w) = Dist15(x) /\ w <= x)}

\* C7: get_wednesday_closest_fifteen returns the Wednesday of the month nearest the
\* 15th (the earliest on a tie) when it is a business day, otherwise the earliest
\* business day strictly after it.
C7_WednesdayLooksForward ==
    (Called("get_wednesday_closest_fifteen") /\ args[1].t /= "nan") =>
        /\ NearestWednesdays(ArgMonth, ArgYear) = {} => out.err /= NoErr
        /\ \A w \in NearestWednesdays(ArgMonth, ArgYear) :
              LET after == {d \in BusinessDays : d > w}
              IN  IF w \in BusinessDays THEN out = Ok(w)
                  ELSE IF after = {} THEN out.err /= NoErr
                  ELSE /\ out.err = NoErr
                       /\ out.v \in after
                       /\ \A d \in after : out.v <= d

C7_Witness ==
    /\ Called("get_wednesday_closest_fifteen")
    /\ out.err = NoErr
    /\ \E w \in NearestWednesdays(ArgMonth, ArgYear) :
          w \notin BusinessDays /\ out.v > w + 1

C9_CountsFirstNotLast ==
    /\ (Called("calc_du") /\ args[1] < args[2]) =>
          out.v = Cardinality({d \in BusinessDays : args[1] <= d /\ d < args[2]})
    /\ (Called("calc_dc") /\ args[1] < args[2]) =>
          out.v = Cardinality({d \in AllDays : args[1] <= d /\ d < args[2]})

Resolvers == {"get_first_du_month", "get_last_du_month", "get_third_friday_du_month",
              "get_wednesday_closest_fifteen", "get_fifteen"}

\* the month lies outside the loaded horizon: the calendar holds no business day of
\* it, and either no day of it at all or only the part that ends the horizon
OutsideHorizon(m, y) ==
    /\ \A d \in BusinessDays : ~InMonth(d, m, y)
    /\ \/ \A d \in AllDays : ~InMonth(d, m, y)
       \/ InMonth(end_date, m, y)

\* C10: each of the five resolvers, called with a month outside the loaded horizon,
\* ends in an error: it returns no date.
C10_OutsideHorizonFails ==
    ( /\ pc = "done"
      /\ fn \in Resolvers
      /\ args[1].t /= "nan"
      /\ OutsideHorizon(ArgMonth, ArgYear) )
    => out.err /= NoErr

C10_Witness ==
    /\ Called("get_fifteen")
    /\ args = <<PyIntV(12), <<"2", "0", "9", "9">>>>
    /\ out.err = "IndexError"

=============================================================================
